---------------------------- MODULE Spec2Model ----------------------------
(***************************************************************************)
(* A model of the git-log plugin (src/unnamed/part_000, the version with   *)
(* the "all branches" flag; src/main.ts is the earlier version without     *)
(* it).                                                                    *)
(*                                                                         *)
(* Three specifications share the module:                                  *)
(*   Spec          the Insert Git Log command: insertGitLog, the date      *)
(*                 prompt, the repository selector, the save of the last   *)
(*                 selection, the queries and the inserted text;           *)
(*   SpecSettings  the settings tab: Add, Delete and the all-branches      *)
(*                 toggle, with their awaited saves and redraws;           *)
(*   SpecDate      isDailyNote and extractDateFromFileName as functions of *)
(*                 every value their signature accepts.                    *)
(*                                                                         *)
(* Conventions.  A JavaScript value is a record [t, v]: t is its type tag  *)
(* and v the characters of a string (<<>> otherwise).  A string that the   *)
(* code inspects character by character (file names, dates) is a sequence  *)
(* of one-character strings; text the code only concatenates is a TLA+     *)
(* string.  An object reference to a GitRepo is the id field of the        *)
(* record: two repositories with equal name and path are still two         *)
(* objects.  allBranches?: boolean is read by the code only for its        *)
(* truthiness, so an absent flag is modelled as FALSE.                     *)
(***************************************************************************)
EXTENDS Naturals, Sequences, FiniteSets, TLC

VARIABLES
    settings,        \* GitLogPlugin.settings: [repos, lastSelectedRepos]
    persisted,       \* the blob written by saveData (data.json)
    saving,          \* snapshots handed to saveData whose write is pending
    pc,              \* where the current insertGitLog invocation stands
    modal,           \* the open dialog: "none", "date", "repos", "add"
    fileName,        \* insertGitLog's fileName
    date,            \* insertGitLog's date
    checkbox,        \* selector: checked state of each primary checkbox
    allBranchesBox,  \* selector: checked state of each all-branches checkbox
    selectedRepos,   \* RepoSelectionModal.selectedRepos (object references)
    result,          \* what the last submission called onSubmit with; dropped
                     \* when the next selector opens
    inserted,        \* the argument of editor.replaceSelection, if called
    notices,         \* the Notices this invocation has shown
    queries,         \* the getGitLog calls of this invocation
    datePrompts,     \* how often this invocation opened the date prompt
    repoPrompts,     \* how often this invocation opened the selector
    touched,         \* history: a primary checkbox changed since open
    rows,            \* settings tab: the rows display() has drawn
    handlers,        \* settings tab: handlers suspended on their save
    nextId,          \* the next object reference to hand out
    lastDelete,      \* history: the last Delete click and what it removed
    arg,             \* SpecDate: the argument
    isDailyRes,      \* SpecDate: isDailyNote(arg), once called
    extractRes       \* SpecDate: extractDateFromFileName(arg), once called

wfVars == <<pc, modal, fileName, date, checkbox, allBranchesBox, selectedRepos,
            result, inserted, notices, queries, datePrompts, repoPrompts,
            touched>>
storeVars == <<settings, persisted, saving>>
tabVars == <<rows, handlers, nextId, lastDelete>>
fnVars == <<arg, isDailyRes, extractRes>>
vars == <<storeVars, wfVars, tabVars, fnVars>>

(***************************************************************************)
(* Bounds of the model.                                                    *)
(***************************************************************************)
MaxRepos == 2        \* repositories in the store loaded by Spec
MaxAdds == 3         \* repositories ever added in SpecSettings
MaxHandlers == 2     \* settings-tab handlers suspended at once

Names == {"a", "b"}
Paths == {"/p", "/q"}

(***************************************************************************)
(* Generic helpers.                                                        *)
(***************************************************************************)
None == <<>>
Some(x) == <<x>>

Range(s) == {s[i] : i \in 1..Len(s)}

RECURSIVE SeqsUpTo(_, _)
SeqsUpTo(S, n) ==
    IF n = 0 THEN {<<>>}
    ELSE LET shorter == SeqsUpTo(S, n - 1)
         IN shorter \cup {Append(s, x) : s \in {t \in shorter : Len(t) = n - 1}, x \in S}

RECURSIVE JoinChars(_)
JoinChars(cs) == IF cs = <<>> THEN "" ELSE Head(cs) \o JoinChars(Tail(cs))

(***************************************************************************)
(* JavaScript values.                                                      *)
(***************************************************************************)
JSNull == [t |-> "null", v |-> <<>>]
JSUndefined == [t |-> "undefined", v |-> <<>>]
Str(cs) == [t |-> "string", v |-> cs]
Nullish(x) == x.t \in {"null", "undefined"}

\* Truthy with the empty string taken for a value, as "if (date !== null)"
\* would
TruthyNotNull(x) == x.t = "string"

\* if (date), x || null: the truthiness of null, undefined or a string
Truthy(x) == x.t = "string" /\ x.v # <<>>

(***************************************************************************)
(* DateResolver: /^\d{4}-\d{2}-\d{2}$/ and the two functions that use it.  *)
(***************************************************************************)
Digits == {"0", "1", "2", "3", "4", "5", "6", "7", "8", "9"}

\* the regular expression, anchored at both ends, no flags
DateRegexMatches(cs) ==
    /\ Len(cs) = 10
    /\ \A i \in {1, 2, 3, 4, 6, 7, 9, 10} : cs[i] \in Digits
    /\ cs[5] = "-"
    /\ cs[8] = "-"

\* fileName?.match(re): undefined for a nullish receiver, else the match
\* array (its element 0, the matched text, is kept) or null
OptionalMatch(f) ==
    IF Nullish(f) THEN JSUndefined
    ELSE IF DateRegexMatches(f.v) THEN [t |-> "array", v |-> f.v]
    ELSE JSNull

isDailyNote(f) == OptionalMatch(f) # JSNull

extractDateFromFileName(f) ==
    LET m == OptionalMatch(f)
        m0 == IF Nullish(m) THEN JSUndefined ELSE Str(m.v)
    IN IF Truthy(m0) THEN m0 ELSE JSNull

\* view.file?.basename ?? ""
Basename(file) == IF Nullish(file) THEN Str(<<>>) ELSE file

(***************************************************************************)
(* RepositoryStore: the settings object and its repositories.              *)
(***************************************************************************)
Repo(id, name, path, allBranches) ==
    [id |-> id, name |-> name, path |-> path, allBranches |-> allBranches]

DEFAULT_SETTINGS == [repos |-> <<>>, lastSelectedRepos |-> <<>>]

RepoNames(rs) == [i \in 1..Len(rs) |-> rs[i].name]
RepoIds(rs) == [i \in 1..Len(rs) |-> rs[i].id]

\* the object a reference designates, looked up in a list that holds it
Deref(rs, id) == rs[CHOOSE i \in 1..Len(rs) : rs[i].id = id]
DerefAll(rs, ids) == [k \in 1..Len(ids) |-> Deref(rs, ids[k])]

\* lastSelectedRepos.includes(name)
Includes(names, n) == n \in Range(names)

\* the path of the i-th loaded repository: the paths alternate
LoadedPath(i) == IF i % 2 = 1 THEN "/p" ELSE "/q"

\* the stores a session can load: what earlier sessions saved.  The object
\* references of a freshly loaded list are its positions.  The names are
\* interchangeable, so the first repository is the one called "a".
LoadableRepoLists ==
    UNION {{[i \in 1..n |-> Repo(i, nm[i], LoadedPath(i), ab[i])] :
                nm \in {f \in [1..n -> Names] : n > 0 => f[1] = "a"},
                ab \in [1..n -> BOOLEAN]} :
           n \in 0..MaxRepos}

\* lastSelectedRepos is only ever searched (includes): one order per set
LoadableLastSelected == {<<>>, <<"a">>, <<"b">>, <<"a", "b">>}

LoadableSettings ==
    [repos : LoadableRepoLists, lastSelectedRepos : LoadableLastSelected]

(***************************************************************************)
(* LogQueryFormatter: getGitLog and the loop of insertGitLog.              *)
(***************************************************************************)
FormatWithRefs == "--format=\"%h %s (%D)\""
FormatPlain == "--format=\"%h %s\""

\* the template literal of getGitLog, one element per space-separated piece
\* (allBranchesFlag is "" when allBranches is false or omitted)
CommandLine(d, repoPath, allBranches) ==
    << "git", "-C", "\"" \o repoPath \o "\"", "log",
       IF allBranches THEN "--all" ELSE "",
       "--oneline", "--no-merges", "--date=short",
       FormatWithRefs,
       "--after=\"" \o d \o " 00:00:00\"",
       "--before=\"" \o d \o " 23:59:59\"" >>

\* what execSync(command) can do: throw (bad path, no git, not a
\* repository), or return the output, here after toString().trim(): no
\* commit, or two commits
ExecOutcomes ==
    { [throws |-> TRUE, out |-> ""],
      [throws |-> FALSE, out |-> ""],
      [throws |-> FALSE, out |-> "abc123 fix bug (HEAD -> main)\ndef456 add test ()"] }

\* getGitLog without the fallback for an empty output
getGitLogNoFallback(d, repoPath, allBranches, exec) ==
    IF exec.throws THEN "Error: Unable to retrieve git log." ELSE exec.out

\* getGitLog(date, repoPath, allBranches = false); exec is what execSync
\* does with the command:
\* try { ... return output || "No commits ..." } catch { return "Error ..." }
getGitLog(d, repoPath, allBranches, exec) ==
    LET command == CommandLine(d, repoPath, allBranches)
        output == exec.out
    IN IF exec.throws THEN "Error: Unable to retrieve git log."
       ELSE IF output # "" THEN output
       ELSE "No commits found for the specified date."

\* the grave accent of the inserted markup, which a TLA+ string cannot
\* hold: written as an apostrophe
GraveAccent == "'"
Fence == "> " \o GraveAccent \o GraveAccent \o GraveAccent \o "\n"

\* the body of the for loop: what one repository adds to gitLog
Block(d, repo, exec) ==
    ">[!NOTE]- " \o GraveAccent \o "git log" \o GraveAccent \o " for " \o repo.name
        \o (IF repo.allBranches THEN " (all branches)" ELSE "") \o "\n"
    \o Fence
    \o "> " \o getGitLog(d, repo.path, repo.allBranches, exec) \o "\n"
    \o Fence
    \o "\n"

\* let gitLog = ""; for (const repo of selectedRepos) gitLog += ...
RECURSIVE GitLogText(_, _, _)
GitLogText(d, sel, execs) ==
    IF sel = <<>> THEN ""
    ELSE Block(d, Head(sel), Head(execs)) \o GitLogText(d, Tail(sel), Tail(execs))

\* the getGitLog calls the loop makes, in order
Queries(d, sel, execs) ==
    [k \in 1..Len(sel) |->
        [repo |-> sel[k].id,
         allBranches |-> sel[k].allBranches,
         command |-> CommandLine(d, sel[k].path, sel[k].allBranches),
         exec |-> execs[k]]]

(***************************************************************************)
(* The Insert Git Log command (specification Spec).                        *)
(*                                                                         *)
(* pc: "idle" before the first invocation; "awaitDate" and "awaitRepos"    *)
(* while insertGitLog is suspended on promptForDate / promptForRepos;      *)
(* "awaitSave" while onSubmit is suspended on saveSettings; "done" after   *)
(* editor.replaceSelection; "cancelled" after a Notice.  A promise         *)
(* resolution and the continuation it wakes run as one step: nothing else  *)
(* is scheduled between them.                                              *)
(***************************************************************************)
DailyName == <<"2", "0", "2", "4", "-", "0", "3", "-", "1", "5">>
PlainName == <<"n", "o", "t", "e">>
PromptDate == <<"2", "0", "2", "4", "-", "0", "3", "-", "1", "6">>

\* view.file of the active view: absent, or a file with one of two basenames
FileInputs == {JSNull, Str(DailyName), Str(PlainName)}
\* input.value of the date input when Continue is clicked
DateInputs == {Str(<<>>), Str(PromptDate)}

NoDateNotice == "No date provided. Git log not inserted."
NoReposNotice == "No repositories selected. Git log not inserted."

\* new RepoSelectionModal(app, settings.repos, settings.lastSelectedRepos,
\* ...): the constructor's filter
ConstructSelected(repos, lastSelected) ==
    RepoIds(SelectSeq(repos, LAMBDA r : Includes(lastSelected, r.name)))

\* onOpen: the initial state of the primary checkboxes
InitialChecked(repos, lastSelected) ==
    [i \in 1..Len(repos) |-> Includes(lastSelected, repos[i].name)]

\* the change handler of repository i's primary checkbox, given the
\* checkbox's new state
OnCheckboxChange(sel, repos, i, nowChecked) ==
    IF nowChecked THEN Append(sel, repos[i].id)
    ELSE SelectSeq(sel, LAMBDA r : Deref(repos, r).name # repos[i].name)

\* no selector exists (any more): its fields and checkboxes are dropped
DialogGone ==
    /\ selectedRepos' = <<>>
    /\ checkbox' = <<>>
    /\ allBranchesBox' = <<>>
    /\ touched' = FALSE

\* insertGitLog from "if (date)" on, up to its next suspension: ns and rp
\* are the notices shown and the selectors opened so far
AfterDate(d, ns, rp) ==
    IF Truthy(d)
    THEN /\ pc' = "awaitRepos"
         /\ modal' = "repos"
         /\ selectedRepos' = ConstructSelected(settings.repos, settings.lastSelectedRepos)
         /\ checkbox' = InitialChecked(settings.repos, settings.lastSelectedRepos)
         /\ allBranchesBox' = [i \in 1..Len(settings.repos) |-> settings.repos[i].allBranches]
         /\ repoPrompts' = rp + 1
         /\ touched' = FALSE
         /\ notices' = ns
         /\ result' = None
    ELSE /\ pc' = "cancelled"
         /\ modal' = "none"
         /\ notices' = Append(ns, NoDateNotice)
         /\ repoPrompts' = rp
         /\ result' = result
         /\ DialogGone

\* the command is invoked on the active editor.  No dialog is open; an
\* earlier invocation whose dialog was closed is still suspended and stays
\* so, and its state is dropped from the model.
InsertGitLog(file) ==
    /\ modal = "none"
    /\ pc \in {"idle", "done", "cancelled", "awaitDate", "awaitRepos"}
    /\ fileName' = Basename(file)
    /\ inserted' = None
    /\ queries' = <<>>
    /\ IF isDailyNote(fileName')
       THEN /\ date' = extractDateFromFileName(fileName')
            /\ datePrompts' = 0
            /\ AfterDate(date', <<>>, 0)
       ELSE /\ date' = JSNull
            /\ datePrompts' = 1
            /\ pc' = "awaitDate"
            /\ modal' = "date"
            /\ notices' = <<>>
            /\ repoPrompts' = 0
            /\ result' = result
            /\ DialogGone
    /\ UNCHANGED <<storeVars, tabVars, fnVars>>

\* DatePromptModal: Continue is clicked
SubmitDate(v) ==
    /\ modal = "date"
    /\ date' = v
    /\ AfterDate(v, notices, repoPrompts)
    /\ UNCHANGED <<storeVars, fileName, inserted, queries, datePrompts,
                   tabVars, fnVars>>

\* DatePromptModal is closed otherwise (Escape, a click outside): onClose
\* empties the content and nothing calls onSubmit
CloseDate ==
    /\ modal = "date"
    /\ modal' = "none"
    /\ UNCHANGED <<storeVars, pc, fileName, date, checkbox, allBranchesBox,
                   selectedRepos, result, inserted, notices, queries, datePrompts,
                   repoPrompts, touched, tabVars, fnVars>>

\* RepoSelectionModal: the user clicks repository i's primary checkbox
ChangeCheckbox(i) ==
    /\ modal = "repos"
    /\ i \in DOMAIN checkbox
    /\ checkbox' = [checkbox EXCEPT ![i] = ~checkbox[i]]
    /\ selectedRepos' = OnCheckboxChange(selectedRepos, settings.repos, i, checkbox'[i])
    /\ touched' = TRUE
    /\ UNCHANGED <<storeVars, pc, modal, fileName, date, allBranchesBox, result,
                   inserted, notices, queries, datePrompts, repoPrompts,
                   tabVars, fnVars>>

\* RepoSelectionModal: the user clicks repository i's "All branches" box
ChangeAllBranches(i) ==
    /\ modal = "repos"
    /\ i \in DOMAIN allBranchesBox
    /\ allBranchesBox' = [allBranchesBox EXCEPT ![i] = ~allBranchesBox[i]]
    /\ settings' = [settings EXCEPT !.repos[i].allBranches = allBranchesBox'[i]]
    /\ UNCHANGED <<persisted, saving, pc, modal, fileName, date, checkbox,
                   selectedRepos, result, inserted, notices, queries, datePrompts,
                   repoPrompts, touched, tabVars, fnVars>>

\* RepoSelectionModal: "Insert Git Log" is clicked.  close(), then
\* onSubmit(selectedRepos) runs up to its await of saveSettings
SubmitRepos ==
    /\ modal = "repos"
    /\ modal' = "none"
    /\ result' = Some(selectedRepos)
    /\ settings' = [settings EXCEPT !.lastSelectedRepos =
                        RepoNames(DerefAll(settings.repos, selectedRepos))]
    /\ saving' = Append(saving, settings')
    /\ pc' = "awaitSave"
    /\ DialogGone
    /\ UNCHANGED <<persisted, fileName, date, inserted, notices, queries,
                   datePrompts, repoPrompts, tabVars, fnVars>>

\* RepoSelectionModal is closed otherwise: onClose empties the content and
\* nothing calls onSubmit
CloseRepos ==
    /\ modal = "repos"
    /\ modal' = "none"
    /\ DialogGone
    /\ UNCHANGED <<storeVars, pc, fileName, date, result, inserted, notices,
                   queries, datePrompts, repoPrompts, tabVars, fnVars>>

\* the save of onSubmit completes: resolve(result), and insertGitLog runs
\* from "if (selectedRepos.length > 0)" to its end
SaveSettled ==
    /\ pc = "awaitSave"
    /\ saving # <<>>
    /\ persisted' = Head(saving)
    /\ saving' = Tail(saving)
    /\ LET sel == DerefAll(settings.repos, result[1])
       IN IF Len(sel) > 0
          THEN \E execs \in [1..Len(sel) -> ExecOutcomes] :
                  /\ queries' = Queries(JoinChars(date.v), sel, execs)
                  /\ inserted' = Some(GitLogText(JoinChars(date.v), sel, execs))
                  /\ notices' = notices
                  /\ pc' = "done"
          ELSE /\ notices' = Append(notices, NoReposNotice)
               /\ queries' = queries
               /\ inserted' = inserted
               /\ pc' = "cancelled"
    /\ UNCHANGED <<settings, modal, fileName, date, checkbox, allBranchesBox,
                   selectedRepos, touched, result, datePrompts, repoPrompts,
                   tabVars, fnVars>>

WorkflowInit ==
    /\ pc = "idle"
    /\ modal = "none"
    /\ fileName = Str(<<>>)
    /\ date = JSNull
    /\ checkbox = <<>>
    /\ allBranchesBox = <<>>
    /\ selectedRepos = <<>>
    /\ result = None
    /\ inserted = None
    /\ notices = <<>>
    /\ queries = <<>>
    /\ datePrompts = 0
    /\ repoPrompts = 0
    /\ touched = FALSE

TabIdle ==
    /\ rows = <<>>
    /\ handlers = <<>>
    /\ lastDelete = None

FnIdle ==
    /\ arg = JSNull
    /\ isDailyRes = None
    /\ extractRes = None

\* onload: loadSettings() over what an earlier session saved
Init ==
    /\ settings \in LoadableSettings
    /\ persisted = settings
    /\ saving = <<>>
    /\ nextId = Len(settings.repos) + 1
    /\ WorkflowInit
    /\ TabIdle
    /\ FnIdle

Next ==
    \/ \E file \in FileInputs : InsertGitLog(file)
    \/ \E v \in DateInputs : SubmitDate(v)
    \/ CloseDate
    \/ \E i \in 1..MaxRepos : ChangeCheckbox(i)
    \/ \E i \in 1..MaxRepos : ChangeAllBranches(i)
    \/ SubmitRepos
    \/ CloseRepos
    \/ SaveSettled

Spec == Init /\ [][Next]_vars

(***************************************************************************)
(* The settings tab (specification SpecSettings).                          *)
(*                                                                         *)
(* display() draws one row per repository; the row's handlers close over   *)
(* the repository object and its index at that moment.  Each handler       *)
(* mutates the settings, then awaits saveSettings; Add and Delete call     *)
(* display() when they resume.  A click can arrive while earlier handlers  *)
(* are still suspended.  saveData receives the settings as they are when   *)
(* saveSettings is called, and the writes complete in the order issued.    *)
(***************************************************************************)
\* this.plugin.settings.repos.forEach((repo, index) => new Setting(...)):
\* the captured index (counted from 0), the captured object, and the value
\* the toggle shows
Display(repos) ==
    [i \in 1..Len(repos) |->
        [index |-> i - 1, repo |-> repos[i].id, toggle |-> repos[i].allBranches]]

\* repos.splice(index, 1), index counted from 0: nothing is removed when
\* index is past the end
Splice(repos, index) ==
    IF index < Len(repos)
    THEN SubSeq(repos, 1, index) \o SubSeq(repos, index + 2, Len(repos))
    ELSE repos

\* repo.allBranches = value on a captured object: the list changes where
\* it still holds that object
SetAllBranches(repos, id, value) ==
    [i \in 1..Len(repos) |->
        IF repos[i].id = id THEN [repos[i] EXCEPT !.allBranches = value] ELSE repos[i]]

Suspended(snapshot, continuation) == [snapshot |-> snapshot, then |-> continuation]

\* the "+" button: new AddRepoModal(...).open()
ClickAdd ==
    /\ modal = "none"
    /\ nextId <= MaxAdds
    /\ modal' = "add"
    /\ UNCHANGED <<storeVars, pc, fileName, date, checkbox, allBranchesBox,
                   selectedRepos, result, inserted, notices, queries, datePrompts,
                   repoPrompts, touched, tabVars, fnVars>>

\* AddRepoModal: Add is clicked; onSubmit pushes and awaits the save
SubmitAdd(name, path) ==
    /\ modal = "add"
    /\ Len(handlers) < MaxHandlers
    /\ modal' = "none"
    /\ settings' = [settings EXCEPT !.repos = Append(@, Repo(nextId, name, path, FALSE))]
    /\ nextId' = nextId + 1
    /\ handlers' = Append(handlers, Suspended(settings', "display"))
    /\ UNCHANGED <<persisted, saving, pc, fileName, date, checkbox, allBranchesBox,
                   selectedRepos, result, inserted, notices, queries, datePrompts,
                   repoPrompts, touched, rows, lastDelete, fnVars>>

\* AddRepoModal is closed otherwise
CloseAdd ==
    /\ modal = "add"
    /\ modal' = "none"
    /\ UNCHANGED <<storeVars, pc, fileName, date, checkbox, allBranchesBox,
                   selectedRepos, result, inserted, notices, queries, datePrompts,
                   repoPrompts, touched, tabVars, fnVars>>

\* the Delete button of drawn row r
ClickDelete(r) ==
    /\ modal = "none"
    /\ r \in DOMAIN rows
    /\ Len(handlers) < MaxHandlers
    /\ settings' = [settings EXCEPT !.repos = Splice(@, rows[r].index)]
    /\ lastDelete' = Some([clicked |-> rows[r].repo,
                           index |-> rows[r].index,
                           before |-> RepoIds(settings.repos),
                           after |-> RepoIds(settings'.repos)])
    /\ handlers' = Append(handlers, Suspended(settings', "display"))
    /\ UNCHANGED <<persisted, saving, wfVars, rows, nextId, fnVars>>

\* the all-branches toggle of drawn row r
ChangeToggle(r) ==
    /\ modal = "none"
    /\ r \in DOMAIN rows
    /\ Len(handlers) < MaxHandlers
    /\ rows' = [rows EXCEPT ![r].toggle = ~rows[r].toggle]
    /\ settings' = [settings EXCEPT !.repos = SetAllBranches(@, rows[r].repo, rows'[r].toggle)]
    /\ handlers' = Append(handlers, Suspended(settings', "return"))
    /\ UNCHANGED <<persisted, saving, wfVars, nextId, lastDelete, fnVars>>

\* the oldest pending save completes and its handler resumes
HandlerResumes ==
    /\ handlers # <<>>
    /\ persisted' = Head(handlers).snapshot
    /\ handlers' = Tail(handlers)
    /\ rows' = IF Head(handlers).then = "display" THEN Display(settings.repos) ELSE rows
    /\ UNCHANGED <<settings, saving, wfVars, nextId, lastDelete, fnVars>>

\* the settings tab is opened on a fresh install: DEFAULT_SETTINGS
InitSettings ==
    /\ settings = DEFAULT_SETTINGS
    /\ persisted = settings
    /\ saving = <<>>
    /\ nextId = 1
    /\ WorkflowInit
    /\ TabIdle
    /\ FnIdle

NextSettings ==
    \/ ClickAdd
    \/ \E name \in Names, path \in Paths : SubmitAdd(name, path)
    \/ CloseAdd
    \/ \E r \in 1..MaxAdds : ClickDelete(r)
    \/ \E r \in 1..MaxAdds : ChangeToggle(r)
    \/ HandlerResumes

SpecSettings == InitSettings /\ [][NextSettings]_vars

(***************************************************************************)
(* isDailyNote and extractDateFromFileName over every argument their       *)
(* signature (string | null) accepts (specification SpecDate).             *)
(***************************************************************************)
OtherChars == {"7", "-", "x"}

ReplaceAt(cs, i, c) == [cs EXCEPT ![i] = c]
InsertAt(cs, i, c) == SubSeq(cs, 1, i) \o <<c>> \o SubSeq(cs, i + 1, Len(cs))
DeleteAt(cs, i) == SubSeq(cs, 1, i - 1) \o SubSeq(cs, i + 1, Len(cs))

\* a date, and every string one edit away from it or cut out of it: other
\* dates, dates with a character before, after or inside, partial dates,
\* the empty string
FileNameStrings ==
    {DailyName}
    \cup {ReplaceAt(DailyName, i, c) : i \in 1..Len(DailyName), c \in OtherChars}
    \cup {InsertAt(DailyName, i, c) : i \in 0..Len(DailyName), c \in OtherChars}
    \cup {DeleteAt(DailyName, i) : i \in 1..Len(DailyName)}
    \cup {SubSeq(DailyName, i, j) : i \in 1..Len(DailyName) + 1, j \in 0..Len(DailyName)}

FileNameValues == {JSNull} \cup {Str(cs) : cs \in FileNameStrings}

CallIsDailyNote ==
    /\ isDailyRes = None
    /\ isDailyRes' = Some(isDailyNote(arg))
    /\ UNCHANGED <<storeVars, wfVars, tabVars, arg, extractRes>>

CallExtractDate ==
    /\ extractRes = None
    /\ extractRes' = Some(extractDateFromFileName(arg))
    /\ UNCHANGED <<storeVars, wfVars, tabVars, arg, isDailyRes>>

InitDate ==
    /\ arg \in FileNameValues
    /\ isDailyRes = None
    /\ extractRes = None
    /\ settings = DEFAULT_SETTINGS
    /\ persisted = settings
    /\ saving = <<>>
    /\ nextId = 1
    /\ WorkflowInit
    /\ TabIdle

NextDate == CallIsDailyNote \/ CallExtractDate

SpecDate == InitDate /\ [][NextDate]_vars

(***************************************************************************)
(* The claims.                                                             *)
(***************************************************************************)
DateNonEmpty == date.t = "string" /\ Len(date.v) > 0
Terminated == pc \in {"done", "cancelled"}

\* the position of an object in Settings.repositories (0 when not in it)
PositionOf(id) ==
    IF \E i \in 1..Len(settings.repos) : settings.repos[i].id = id
    THEN CHOOSE i \in 1..Len(settings.repos) : settings.repos[i].id = id
    ELSE 0

NamesDistinct ==
    \A i, j \in 1..Len(settings.repos) :
        settings.repos[i].name = settings.repos[j].name => i = j

\* the repositories whose primary checkbox is checked, as object references
CheckedIds == {settings.repos[i].id : i \in {j \in DOMAIN checkbox : checkbox[j]}}
CheckedIdsNext == {settings.repos[i].id : i \in {j \in DOMAIN checkbox' : checkbox'[j]}}

InDisplayOrder(ids) ==
    \A j, k \in 1..Len(ids) : j < k => PositionOf(ids[j]) < PositionOf(ids[k])

\* a step of the current invocation: anything but a new invocation
InvocationStep ==
    \/ \E v \in DateInputs : SubmitDate(v)
    \/ CloseDate
    \/ \E i \in 1..MaxRepos : ChangeCheckbox(i)
    \/ \E i \in 1..MaxRepos : ChangeAllBranches(i)
    \/ SubmitRepos
    \/ CloseRepos
    \/ SaveSettled

\* C1: every invocation of Insert Git Log ends in exactly one of Done (text
\* inserted) or Cancelled (a notice shown), whatever the user does in the
\* dialogs; closing a dialog without submitting never leaves the invocation
\* suspended for ever.  As a property of states: an invocation that has not
\* ended can take a step, and one that has ended has either inserted text
\* or shown one notice, not both.
C1_InvocationTerminates ==
    /\ pc \in {"awaitDate", "awaitRepos", "awaitSave"} => ENABLED InvocationStep
    /\ pc = "done" => inserted # None /\ notices = <<>>
    /\ pc = "cancelled" => inserted = None /\ Len(notices) = 1

\* C2: insertGitLog inserts text if and only if the resolved date is
\* non-empty and the submitted selection is non-empty.  With no date the
\* notice "No date provided. ..." is shown, the selector is never opened and
\* nothing is inserted; with a date and an empty selection the notice "No
\* repositories selected. ..." is shown and nothing is inserted.  No
\* invocation both inserts text and shows a notice.
C2_InsertsIffDateAndSelection ==
    /\ Terminated =>
          (inserted # None <=> DateNonEmpty /\ result # None /\ Len(result[1]) > 0)
    /\ ~DateNonEmpty => repoPrompts = 0 /\ inserted = None
    /\ Terminated /\ ~DateNonEmpty => notices = <<NoDateNotice>>
    /\ Terminated /\ DateNonEmpty =>
          /\ repoPrompts = 1
          /\ result # None
          /\ result[1] = <<>> => notices = <<NoReposNotice>> /\ inserted = None
    /\ ~(inserted # None /\ notices # <<>>)
    /\ inserted # None => pc = "done" /\ inserted[1] # ""

\* a prompted date was given and the selector was submitted with no
\* repository checked
C2_Witness ==
    /\ pc = "cancelled"
    /\ datePrompts = 1
    /\ DateNonEmpty
    /\ result = Some(<<>>)
    /\ notices = <<NoReposNotice>>

\* C3: for every repository list the store can hold, names in use twice
\* included, and every sequence of check/uncheck events, the list returned
\* on submission holds exactly the repositories whose primary checkbox is
\* checked at submit time, each once.
C3_SubmissionReturnsChecked ==
    [][ (modal = "repos" /\ pc' = "awaitSave") =>
          /\ result' # None
          /\ Range(result'[1]) = CheckedIds
          /\ Len(result'[1]) = Cardinality(CheckedIds) ]_vars

\* C4: the list the selector returns is in the display order of
\* Settings.repositories whatever the order of the clicks, and so are the
\* blocks of the inserted text.  Stated here for the stores whose names are
\* pairwise distinct, where every checked repository is returned.
C4_ResultInDisplayOrder ==
    NamesDistinct =>
        /\ result # None => InDisplayOrder(result[1])
        /\ pc = "done" => InDisplayOrder([k \in 1..Len(queries) |-> queries[k].repo])

\* C5: every mutation of the in-memory Settings is followed by a save of the
\* full settings object: whenever no handler is running and no dialog is
\* open, the persisted blob equals the in-memory Settings.
C5_PersistedEqualsSettings ==
    (modal = "none" /\ pc \in {"idle", "done", "cancelled"} /\ saving = <<>>
        /\ handlers = <<>>)
    => persisted = settings

\* the block the inserted text holds for one repository, as section 6 of
\* the specification gives it
ExpectedBody(exec) ==
    IF exec.throws THEN "Error: Unable to retrieve git log."
    ELSE IF exec.out = "" THEN "No commits found for the specified date."
    ELSE exec.out

ExpectedBlock(name, allBranches, body) ==
    ">[!NOTE]- " \o GraveAccent \o "git log" \o GraveAccent \o " for " \o name
    \o (IF allBranches THEN " (all branches)" ELSE "")
    \o "\n> " \o GraveAccent \o GraveAccent \o GraveAccent
    \o "\n> " \o body
    \o "\n> " \o GraveAccent \o GraveAccent \o GraveAccent
    \o "\n" \o "\n"

RECURSIVE ExpectedText(_, _)
ExpectedText(ids, qs) ==
    IF ids = <<>> THEN ""
    ELSE LET repo == settings.repos[PositionOf(Head(ids))]
         IN ExpectedBlock(repo.name, repo.allBranches, ExpectedBody(Head(qs).exec))
                \o ExpectedText(Tail(ids), Tail(qs))

\* C6: for every non-empty selection and every combination of query
\* outcomes (commits, no commits, failure) the inserted text is exactly one
\* block per selected repository, in selection order, each followed by one
\* blank line; a failing query never aborts the insertion nor changes
\* another block: its own block reads "Error: Unable to retrieve git log."
\* and the block of a repository without commits reads "No commits found
\* for the specified date.".
C6_OneBlockPerSelectedRepository ==
    /\ (Terminated /\ result # None /\ Len(result[1]) > 0 /\ DateNonEmpty) => pc = "done"
    /\ pc = "done" =>
          /\ Len(queries) = Len(result[1])
          /\ \A k \in 1..Len(queries) : queries[k].repo = result[1][k]
          /\ inserted = Some(ExpectedText(result[1], queries))

\* two repositories were selected; the query of one failed, the other one
\* had no commits, and the text was inserted
C6_Witness ==
    /\ pc = "done"
    /\ Len(queries) >= 2
    /\ \E j, k \in 1..Len(queries) :
          /\ queries[j].exec.throws
          /\ ~queries[k].exec.throws
          /\ queries[k].exec.out = ""
    /\ inserted # None

\* C7: the command getGitLog builds holds the ref decoration "(%D)" in its
\* --format and the --all flag if and only if allBranches is true; otherwise
\* the format is short hash plus subject only.  In both cases it carries
\* --no-merges and the window --after="<date> 00:00:00"
\* --before="<date> 23:59:59" of the one date.
C7_DecorationOnlyWithAllBranches ==
    \A k \in 1..Len(queries) :
        LET cmd == Range(queries[k].command)
            d == JoinChars(date.v)
        IN /\ (FormatWithRefs \in cmd) <=> queries[k].allBranches
           /\ ("--all" \in cmd) <=> queries[k].allBranches
           /\ ~queries[k].allBranches => FormatPlain \in cmd
           /\ "--no-merges" \in cmd
           /\ ("--after=\"" \o d \o " 00:00:00\"") \in cmd
           /\ ("--before=\"" \o d \o " 23:59:59\"") \in cmd

\* four digits, hyphen, two digits, hyphen, two digits, nothing before or
\* after
DateShaped(x) ==
    /\ x.t = "string"
    /\ Len(x.v) = 4 + 1 + 2 + 1 + 2
    /\ LET year == SubSeq(x.v, 1, 4)
           month == SubSeq(x.v, 6, 7)
           day == SubSeq(x.v, 9, 10)
       IN /\ Range(year) \cup Range(month) \cup Range(day) \subseteq Digits
          /\ x.v = year \o <<"-">> \o month \o <<"-">> \o day

\* the part of C8 about insertGitLog: a daily note's name is the date and
\* no prompt is opened; otherwise the prompt is opened exactly once and the
\* date is what it returned
C8_DateOfInsertGitLog ==
    pc # "idle" =>
        IF DateShaped(fileName)
        THEN datePrompts = 0 /\ date = fileName
        ELSE datePrompts = 1 /\ (pc = "awaitDate" \/ date \in DateInputs)

\* C8: for every file name value the functions accept (any string, the
\* empty string, a missing file name) isDailyNote is true exactly when the
\* name is four digits, hyphen, two digits, hyphen, two digits and nothing
\* else, and extractDate returns the name itself exactly then and is absent
\* otherwise; insertGitLog takes the date from the name without a prompt
\* when isDailyNote holds and from the prompt, opened once, otherwise.
C8_DateResolution ==
    /\ isDailyRes # None => (isDailyRes[1] <=> DateShaped(arg))
    /\ extractRes # None => extractRes[1] = (IF DateShaped(arg) THEN arg ELSE JSNull)
    /\ (isDailyRes # None /\ extractRes # None) =>
          (isDailyRes[1] <=> extractRes[1] = arg /\ extractRes[1] # JSNull)
    /\ C8_DateOfInsertGitLog

\* the repositories a selector over the current store pre-checks
PreChecked ==
    RepoIds(SelectSeq(settings.repos,
                      LAMBDA r : r.name \in Range(settings.lastSelectedRepos)))

\* C9: the selector opens pre-checked with exactly the repositories whose
\* name is in lastSelectedNames, and submitted untouched it returns them in
\* display order.  After a submission that returns S, lastSelectedNames is
\* the names of S and is saved before the text is inserted, so the next
\* selector over the same list is pre-checked with exactly S and, submitted
\* untouched, returns S.
C9_SelectionRoundTrip ==
    [][ /\ (modal # "repos" /\ modal' = "repos") =>
              /\ CheckedIdsNext = Range(PreChecked)
              /\ selectedRepos' = PreChecked
              /\ result # None => CheckedIdsNext = Range(result[1])
        /\ (modal = "repos" /\ pc' = "awaitSave") =>
              /\ ~touched => result' = Some(PreChecked)
              /\ settings'.lastSelectedRepos =
                    [k \in 1..Len(result'[1]) |-> settings.repos[PositionOf(result'[1][k])].name]
        /\ (pc = "awaitSave" /\ pc' = "done") =>
              persisted'.lastSelectedRepos = settings.lastSelectedRepos ]_vars

\* C10: the Delete button of a drawn row removes exactly that row's
\* repository and no other entry, in every interleaving of clicks with
\* pending saves: the captured index still designates the row's repository
\* when the click is handled.
C10_DeleteRemovesItsRow ==
    lastDelete # None =>
        LET del == lastDelete[1]
        IN /\ del.clicked \in Range(del.before) =>
                 /\ del.index < Len(del.before)
                 /\ del.before[del.index + 1] = del.clicked
           /\ del.after = SelectSeq(del.before, LAMBDA id : id # del.clicked)

=============================================================================
